---- MODULE Spec2Model ----
(***************************************************************************)
(* Model of src/app.py (SEO Rankings Analyzer): the query builder, the     *)
(* single-query executor process_query, the concurrent batch runner        *)
(* parallel_process_queries with the sleep-and-retry gate around the       *)
(* provider call, and ThreadSafeRateLimiter.                               *)
(*                                                                         *)
(* Text is modelled as a sequence of one-character strings wherever the    *)
(* code inspects characters (lower(), substring test); otherwise as a      *)
(* TLA+ string.  Time is counted in ticks of one second.                   *)
(***************************************************************************)
EXTENDS Integers, Sequences, FiniteSets, Bags, TLC

VARIABLES
    \* ---- main: what the user typed, one entry per line of the text area
    keywords_text,     \* `keywords`, the text area's content split at the line breaks
    locations_text,    \* `locations`, the text area's content split at the line breaks
    \* ---- main: the format check and the geocoding check of the locations
    processed_locations, \* well-formed locations (ZIP string or city/state dict)
    invalid_locations, \* the lines the format check refuses
    geocodable,        \* the search terms the geocoder resolves
    geocoded,          \* the search terms handed to geolocator.geocode, in order
    chunk_st,          \* chunk_st[c]: state of the future of location_chunks[c]
    chunk_valid,       \* chunk_valid[c]: what validate_location_batch returned
    skipped_locations, \* the locations named by the warning
    error,             \* what ended the run: an st.error message or an exception
    \* ---- main: inputs of the query-building step and its output
    keyword_list,      \* list of keyword strings
    valid_locations,   \* list of validated locations (ZIP string or city/state dict)
    search_queries,    \* list of query units {keyword, location, query}
    \* ---- main: the results display and generate_html_report
    summary,           \* the six summary metrics shown on screen
    pivot_data,        \* the pivot table (location, keyword) -> target_position
    report,            \* what generate_html_report hands to the template
    \* ---- process_query as a function of (target_url, serp_data)
    target_url,        \* the target domain as main() hands it on
    serp_data,         \* the provider's JSON answer
    record,            \* what process_query returned ("unset" before the call)
    \* ---- parallel_process_queries
    pc,                \* position of the calling thread
    submitted,         \* number of futures created so far by executor.submit
    st,                \* st[i]: state of the future of search_queries[i]
    results,           \* the list `results`
    completed,         \* the nonlocal counter `completed`
    total,             \* len(search_queries)
    warnings,          \* bag of (keyword, location) named by st.warning
    reply,             \* reply[i]: how rate_limited_api_call ended for unit i
    requests,          \* number of requests.get calls issued
    cpc,               \* position of the calling thread inside one loop turn
    progress_lock,     \* holder of progress_lock
    \* ---- the sleep_and_retry / limits(calls=5, period=1) gate
    num_calls,         \* calls counted in the current window
    window,            \* ticks since the window was last reset, saturating at PERIOD
    sleep_left,        \* sleep_left[i]: ticks worker of unit i still sleeps
    \* ---- ThreadSafeRateLimiter
    now,               \* time.time()
    last_call,         \* self.last_call
    lock,              \* holder of self.lock, 0 when free
    lpc,               \* lpc[t]: position of thread t inside wait()
    interval,          \* 1.0 / self.calls_per_second, in seconds
    wake_at,           \* wake_at[t]: when time.sleep(time_to_wait) of t ends
    calls_left,        \* calls_left[t]: wait() calls thread t still makes
    grants             \* the values stamped into last_call, in order

inputVars   == <<keywords_text, locations_text, processed_locations, invalid_locations,
                 geocodable, geocoded, chunk_st, chunk_valid, skipped_locations, error>>
displayVars == <<summary, pivot_data, report>>
mainVars    == <<keyword_list, valid_locations, search_queries, inputVars, displayVars>>
collectorVars == <<cpc, progress_lock>>
queryVars   == <<target_url, serp_data, record>>
batchVars   == <<pc, submitted, st, results, completed, total, warnings, reply, requests>>
gateVars    == <<num_calls, window, sleep_left>>
limiterVars == <<now, last_call, interval, lock, lpc, wake_at, calls_left, grants>>
vars == <<mainVars, queryVars, batchVars, collectorVars, gateVars, limiterVars>>

----------------------------------------------------------------------------
(* Generic helpers *)

SeqsUpTo(S, n) == UNION { [1..k -> S] : k \in 0..n }

NonEmptySeqsUpTo(S, n) == UNION { [1..k -> S] : k \in 1..n }

Min(a, b) == IF a <= b THEN a ELSE b

Max(a, b) == IF a >= b THEN a ELSE b

\* s[1..n] as Python's s[:n]
Take(s, n) == SubSeq(s, 1, Min(n, Len(s)))

----------------------------------------------------------------------------
(* Text *)

\* str.lower() on one character
Lower(c) == IF c = "A" THEN "a" ELSE IF c = "B" THEN "b" ELSE c

\* str.lower()
LowerStr(s) == [i \in 1..Len(s) |-> Lower(s[i])]

\* Python's `needle in hay` for strings
Contains(needle, hay) ==
    \E i \in 0..(Len(hay) - Len(needle)) : SubSeq(hay, i + 1, i + Len(needle)) = needle

\* str.replace(tok, ''): every occurrence of the token is removed
RemoveToken(s, tok) == SelectSeq(s, LAMBDA c : c # tok)

\* str.rstrip('/')
RECURSIVE RStripSlash(_)
RStripSlash(s) ==
    IF s # <<>> /\ s[Len(s)] = "/" THEN RStripSlash(SubSeq(s, 1, Len(s) - 1)) ELSE s

\* the decimal digits of n >= 0, as str(n) gives them
RECURSIVE Digits(_)
Digits(n) ==
    LET d == <<"0", "1", "2", "3", "4", "5", "6", "7", "8", "9">>[(n % 10) + 1]
    IN IF n < 10 THEN <<d>> ELSE Digits(n \div 10) \o <<d>>

\* the sentinel "Not on Page 1"
NotOnPage1 == <<"N", "o", "t", " ", "o", "n", " ", "P", "a", "g", "e", " ", "1">>

\* f"#{idx}"
HashRank(idx) == <<"#">> \o Digits(idx)

----------------------------------------------------------------------------
(* main: the target domain as typed, lines 640-646 *)

NormalizeTarget(raw) ==
    RStripSlash(RemoveToken(RemoveToken(RemoveToken(raw, "http://"), "https://"), "www."))

----------------------------------------------------------------------------
(* main: the query-building step, lines 773-786 *)

IsZip(location) == location.kind = "zip"

LocationString(location) ==
    IF IsZip(location) THEN location.zip
    ELSE location.city \o ", " \o location.state

QueryUnit(keyword, location_string) ==
    [keyword  |-> keyword,
     location |-> location_string,
     query    |-> keyword \o " " \o location_string]

\* the inner loop: one unit per keyword, in list order
KeywordUnits(location_string, keywords) ==
    [j \in 1..Len(keywords) |-> QueryUnit(keywords[j], location_string)]

\* a builder that skips a unit already in the list
RECURSIVE CreateSearchQueriesDedup(_, _)
CreateSearchQueriesDedup(locations, keywords) ==
    IF locations = <<>> THEN <<>>
    ELSE LET rest == CreateSearchQueriesDedup(SubSeq(locations, 1, Len(locations) - 1), keywords)
             new  == KeywordUnits(LocationString(locations[Len(locations)]), keywords)
             Fresh(u) == \A k \in 1..Len(rest) : rest[k] # u
         IN rest \o SelectSeq(new, Fresh)

\* the outer loop: locations outer, keywords inner
RECURSIVE CreateSearchQueries(_, _)
CreateSearchQueries(locations, keywords) ==
    IF locations = <<>> THEN <<>>
    ELSE KeywordUnits(LocationString(Head(locations)), keywords)
         \o CreateSearchQueries(Tail(locations), keywords)

----------------------------------------------------------------------------
(* process_query, lines 170-191, and get_local_results, lines 138-149 *)

\* serp_data.get('local_results', []) with the local_pack fallback
get_local_results(data) ==
    IF data.local_results = <<>> /\ data.has_local_pack
    THEN data.local_pack_results
    ELSE data.local_results

\* result.get('domain', '')
DomainOf(result) == IF result.has_domain THEN result.domain ELSE <<>>

\* for idx, result in enumerate(organic_results, 1): ... break
RECURSIVE ScanOrganic(_, _, _)
ScanOrganic(target, organic_results, idx) ==
    IF idx > Len(organic_results) THEN NotOnPage1
    ELSE IF Contains(target, LowerStr(DomainOf(organic_results[idx])))
         THEN HashRank(idx)
         ELSE ScanOrganic(target, organic_results, idx + 1)

NoneValue == [tag |-> "None"]

Unset == [tag |-> "unset"]

\* `not serp_data`: None or an empty JSON object
Falsy(data) == data.tag = "None" \/ data.tag = "empty"

\* a process_query that files the record under the query text
process_queryQueryAsLocation(query, target, data) ==
    IF Falsy(data) THEN NoneValue
    ELSE [tag             |-> "dict",
          keyword         |-> query.keyword,
          location        |-> query.query,
          target_position |-> ScanOrganic(target, data.organic_results, 1),
          organic_results |-> Take(data.organic_results, 3),
          local_results   |-> Take(get_local_results(data), 3)]

process_query(query, target, data) ==
    IF Falsy(data) THEN NoneValue
    ELSE [tag             |-> "dict",
          keyword         |-> query.keyword,
          location        |-> query.location,
          target_position |-> ScanOrganic(target, data.organic_results, 1),
          organic_results |-> Take(data.organic_results, 3),
          local_results   |-> Take(get_local_results(data), 3)]


----------------------------------------------------------------------------
(* Bounds and program constants *)

\* largest number of units of one batch whose provider call does not
\* come back with JSON
MaxFailures == 2

\* ThreadPoolExecutor(max_workers=2)
max_workers == 2

\* @limits(calls=5, period=1)
CALLS == 5

PERIOD == 1

Units == DOMAIN st

----------------------------------------------------------------------------
(* Inputs of a batch run *)

KeywordPool == <<"plumber", "roofer">>

\* the user may list a location twice: both lines are kept
LocationPool ==
    <<[kind |-> "zip", zip |-> "78701"],
      [kind |-> "city_state", city |-> "Austin", state |-> "TX"],
      [kind |-> "zip", zip |-> "78701"]>>

BatchTarget == <<"a">>

\* a provider answer that lists the target second
BatchResponse ==
    [tag                |-> "json",
     organic_results    |-> <<[has_domain |-> TRUE, domain |-> <<"b">>],
                              [has_domain |-> TRUE, domain |-> <<"A">>]>>,
     local_results      |-> <<>>,
     has_local_pack     |-> FALSE,
     local_pack_results |-> <<>>]

\* how rate_limited_api_call can end: the JSON answer, a
\* requests.exceptions.RequestException, or any other exception
Replies == {BatchResponse, [tag |-> "RequestException"], [tag |-> "Exception"]}

\* fetch_serp_data, lines 165-168: a RequestException becomes None
fetch_serp_data(r) == IF r.tag = "RequestException" THEN NoneValue ELSE r

\* future.result() raises for unit i
Raises(i) == reply[i].tag = "Exception"

\* what future.result() gives for unit i otherwise
FutureResult(i) == process_query(search_queries[i], target_url, fetch_serp_data(reply[i]))

\* `if result:` - None is falsy, the five-key dict is truthy
Truthy(result) == result.tag = "dict"

\* units whose provider call ended in an exception
Failed == {i \in Units : reply[i].tag \in {"RequestException", "Exception"}}

\* a pool thread is busy with unit i
Running(i) == st[i] \in {"sleep", "net"}

----------------------------------------------------------------------------
(* Idle values of the parts a specification does not exercise *)

QueryIdle == serp_data = Unset /\ record = Unset

InputIdle ==
    /\ keywords_text = <<>>
    /\ locations_text = <<>>
    /\ processed_locations = <<>>
    /\ invalid_locations = <<>>
    /\ geocodable = {}
    /\ geocoded = <<>>
    /\ chunk_st = <<>>
    /\ chunk_valid = <<>>
    /\ skipped_locations = <<>>
    /\ error = "none"

DisplayIdle == summary = Unset /\ pivot_data = <<>> /\ report = Unset

\* the calling thread is between two loop turns and progress_lock is free
CollectorIdle == cpc = "loop" /\ progress_lock = 0

BatchIdle ==
    /\ submitted = 0
    /\ st = <<>>
    /\ results = <<>>
    /\ completed = 0
    /\ total = 0
    /\ warnings = EmptyBag
    /\ reply = <<>>
    /\ requests = 0
    /\ num_calls = 0
    /\ window = PERIOD
    /\ sleep_left = <<>>

LimiterIdle ==
    /\ now = 0
    /\ last_call = 0
    /\ interval = 1
    /\ lock = 0
    /\ lpc = <<>>
    /\ wake_at = <<>>
    /\ calls_left = <<>>
    /\ grants = <<>>

----------------------------------------------------------------------------
(* parallel_process_queries, lines 193-225 *)

\* state on entry, after lines 195-199; the limits window opened when the
\* script was loaded, more than a period ago
Init ==
    /\ \E k \in 0..Len(KeywordPool), l \in 1..Len(LocationPool) :
          /\ keyword_list = SubSeq(KeywordPool, 1, k)
          /\ valid_locations = SubSeq(LocationPool, 1, l)
    /\ search_queries = CreateSearchQueries(valid_locations, keyword_list)
    /\ target_url = BatchTarget
    /\ QueryIdle
    /\ InputIdle
    /\ DisplayIdle
    /\ CollectorIdle
    /\ pc = "submit"
    /\ submitted = 0
    /\ st = [i \in 1..Len(search_queries) |-> "new"]
    /\ results = <<>>
    /\ completed = 0
    /\ total = Len(search_queries)
    /\ warnings = EmptyBag
    /\ reply = [i \in 1..Len(search_queries) |-> Unset]
    /\ requests = 0
    /\ num_calls = 0
    /\ window = PERIOD
    /\ sleep_left = [i \in 1..Len(search_queries) |-> 0]
    /\ LimiterIdle

\* executor.submit(process_query, query, target_url), one query per step
Submit ==
    /\ pc = "submit"
    /\ submitted < Len(search_queries)
    /\ submitted' = submitted + 1
    /\ st' = [st EXCEPT ![submitted + 1] = "PENDING"]
    /\ UNCHANGED <<pc, results, completed, total, warnings, reply, requests>>
    /\ UNCHANGED <<collectorVars, mainVars, queryVars, gateVars, limiterVars>>

\* the dict comprehension is complete; as_completed starts
StartCollect ==
    /\ pc = "submit"
    /\ submitted = Len(search_queries)
    /\ pc' = "collect"
    /\ UNCHANGED <<submitted, st, results, completed, total, warnings, reply, requests>>
    /\ UNCHANGED <<collectorVars, mainVars, queryVars, gateVars, limiterVars>>

\* one pass of unit i's worker through the limits wrapper, lines 130-131:
\* the call is counted; it goes through to requests.get, or
\* RateLimitException(period_remaining) is raised and sleep_and_retry
\* sleeps that long
GatePass(i) ==
    LET period_remaining == PERIOD - window
        reset == period_remaining <= 0
        n     == (IF reset THEN 0 ELSE num_calls) + 1
    IN /\ num_calls' = n
       /\ window' = IF reset THEN 0 ELSE window
       /\ IF n > CALLS
          THEN /\ st' = [st EXCEPT ![i] = "sleep"]
               /\ sleep_left' = [sleep_left EXCEPT ![i] = period_remaining]
               /\ requests' = requests
          ELSE /\ st' = [st EXCEPT ![i] = "net"]
               /\ sleep_left' = sleep_left
               /\ requests' = requests + 1

\* a worker that takes progress_lock before it runs process_query
WorkerStartUnderLock(i) ==
    /\ i \in Units
    /\ st[i] = "PENDING"
    /\ \A j \in 1..(i - 1) : st[j] # "PENDING"
    /\ Cardinality({j \in Units : Running(j)}) < max_workers
    /\ progress_lock = 0
    /\ progress_lock' = i
    /\ cpc' = cpc
    /\ GatePass(i)
    /\ UNCHANGED <<pc, submitted, results, completed, total, warnings, reply>>
    /\ UNCHANGED <<mainVars, queryVars, limiterVars>>

\* a pool that starts a thread for every queued work item
WorkerStartNoPoolLimit(i) ==
    /\ i \in Units
    /\ st[i] = "PENDING"
    /\ \A j \in 1..(i - 1) : st[j] # "PENDING"
    /\ GatePass(i)
    /\ UNCHANGED <<pc, submitted, results, completed, total, warnings, reply>>
    /\ UNCHANGED <<collectorVars, mainVars, queryVars, limiterVars>>

\* a free pool thread takes the oldest queued work item and runs
\* process_query up to the provider call
WorkerStart(i) ==
    /\ i \in Units
    /\ st[i] = "PENDING"
    /\ \A j \in 1..(i - 1) : st[j] # "PENDING"
    /\ Cardinality({j \in Units : Running(j)}) < max_workers
    /\ GatePass(i)
    /\ UNCHANGED <<pc, submitted, results, completed, total, warnings, reply>>
    /\ UNCHANGED <<collectorVars, mainVars, queryVars, limiterVars>>

\* time.sleep(exception.period_remaining) is over: the while loop of
\* sleep_and_retry calls the wrapper again
GateRetry(i) ==
    /\ i \in Units
    /\ st[i] = "sleep"
    /\ sleep_left[i] = 0
    /\ GatePass(i)
    /\ UNCHANGED <<pc, submitted, results, completed, total, warnings, reply>>
    /\ UNCHANGED <<collectorVars, mainVars, queryVars, limiterVars>>

\* one second passes for the provider gate; the clock is followed as long
\* as a unit has the gate still ahead of it
Tick ==
    /\ \E i \in Units : st[i] \in {"new", "PENDING", "sleep"}
    /\ window < PERIOD \/ \E i \in Units : st[i] = "sleep" /\ sleep_left[i] > 0
    /\ window' = Min(window + 1, PERIOD)
    /\ sleep_left' = [i \in Units |-> Max(sleep_left[i] - 1, 0)]
    /\ UNCHANGED num_calls
    /\ UNCHANGED <<collectorVars, mainVars, queryVars, batchVars, limiterVars>>

\* a provider call that is issued again when it fails
NetDoneRetry(i) ==
    /\ i \in Units
    /\ st[i] = "net"
    /\ \E r \in Replies :
          /\ r.tag # "json" => Cardinality(Failed) < MaxFailures
          /\ reply' = [reply EXCEPT ![i] = r]
          /\ st' = [st EXCEPT ![i] = IF r.tag = "json" THEN "FINISHED" ELSE "PENDING"]
    /\ UNCHANGED <<pc, submitted, results, completed, total, warnings, requests>>
    /\ UNCHANGED <<collectorVars, mainVars, queryVars, gateVars, limiterVars>>

\* requests.get comes back (or fails), and process_query runs to its end
NetDone(i) ==
    /\ i \in Units
    /\ st[i] = "net"
    /\ \E r \in Replies :
          /\ r.tag # "json" => Cardinality(Failed) < MaxFailures
          /\ reply' = [reply EXCEPT ![i] = r]
    /\ st' = [st EXCEPT ![i] = "FINISHED"]
    /\ UNCHANGED <<pc, submitted, results, completed, total, warnings, requests>>
    /\ UNCHANGED <<collectorVars, mainVars, queryVars, gateVars, limiterVars>>

\* update_progress, lines 201-207
update_progress(c) == c + 1

\* a loop whose except clause ends the collection: the warning is shown and
\* the function returns what it has
CollectReturnOnError(i) ==
    /\ i \in Units
    /\ pc = "collect"
    /\ st[i] = "FINISHED"
    /\ IF Raises(i)
       THEN /\ warnings' = warnings (+) SetToBag({<<search_queries[i].keyword,
                                                    search_queries[i].location>>})
            /\ results' = results
            /\ pc' = "returned"
       ELSE /\ warnings' = warnings
            /\ results' = IF Truthy(FutureResult(i))
                          THEN Append(results, FutureResult(i))
                          ELSE results
            /\ pc' = pc
    /\ completed' = update_progress(completed)
    /\ st' = [st EXCEPT ![i] = "COLLECTED"]
    /\ UNCHANGED <<submitted, total, reply, requests>>
    /\ UNCHANGED <<collectorVars, mainVars, queryVars, gateVars, limiterVars>>

\* a loop without the `if result:` test
CollectNoTruthTest(i) ==
    /\ i \in Units
    /\ pc = "collect"
    /\ st[i] = "FINISHED"
    /\ IF Raises(i)
       THEN /\ warnings' = warnings (+) SetToBag({<<search_queries[i].keyword,
                                                    search_queries[i].location>>})
            /\ results' = results
       ELSE /\ warnings' = warnings
            /\ results' = Append(results, FutureResult(i))
    /\ completed' = update_progress(completed)
    /\ st' = [st EXCEPT ![i] = "COLLECTED"]
    /\ UNCHANGED <<pc, submitted, total, reply, requests>>
    /\ UNCHANGED <<collectorVars, mainVars, queryVars, gateVars, limiterVars>>

\* a loop that calls update_progress inside the try block, after the append
CollectProgressInTry(i) ==
    /\ i \in Units
    /\ pc = "collect"
    /\ st[i] = "FINISHED"
    /\ IF Raises(i)
       THEN /\ warnings' = warnings (+) SetToBag({<<search_queries[i].keyword,
                                                    search_queries[i].location>>})
            /\ results' = results
            /\ completed' = completed
       ELSE /\ warnings' = warnings
            /\ results' = IF Truthy(FutureResult(i))
                          THEN Append(results, FutureResult(i))
                          ELSE results
            /\ completed' = update_progress(completed)
    /\ st' = [st EXCEPT ![i] = "COLLECTED"]
    /\ UNCHANGED <<pc, submitted, total, reply, requests>>
    /\ UNCHANGED <<collectorVars, mainVars, queryVars, gateVars, limiterVars>>

\* a loop without the try block: the exception of future.result() leaves
\* parallel_process_queries
CollectNoCatch(i) ==
    /\ i \in Units
    /\ pc = "collect"
    /\ st[i] = "FINISHED"
    /\ IF Raises(i)
       THEN /\ pc' = "raised"
            /\ UNCHANGED <<results, completed>>
       ELSE /\ pc' = pc
            /\ results' = IF Truthy(FutureResult(i))
                          THEN Append(results, FutureResult(i))
                          ELSE results
            /\ completed' = update_progress(completed)
    /\ warnings' = warnings
    /\ st' = [st EXCEPT ![i] = "COLLECTED"]
    /\ UNCHANGED <<submitted, total, reply, requests>>
    /\ UNCHANGED <<collectorVars, mainVars, queryVars, gateVars, limiterVars>>

\* one turn of the as_completed loop, lines 215-223
Collect(i) ==
    /\ i \in Units
    /\ pc = "collect"
    /\ st[i] = "FINISHED"
    /\ IF Raises(i)
       THEN /\ warnings' = warnings (+) SetToBag({<<search_queries[i].keyword,
                                                    search_queries[i].location>>})
            /\ results' = results
       ELSE /\ warnings' = warnings
            /\ results' = IF Truthy(FutureResult(i))
                          THEN Append(results, FutureResult(i))
                          ELSE results
    /\ completed' = update_progress(completed)
    /\ st' = [st EXCEPT ![i] = "COLLECTED"]
    /\ UNCHANGED <<pc, submitted, total, reply, requests>>
    /\ UNCHANGED <<collectorVars, mainVars, queryVars, gateVars, limiterVars>>

\* as_completed is exhausted, the executor shuts down, `return results`
Return ==
    /\ pc = "collect"
    /\ \A i \in Units : st[i] = "COLLECTED"
    /\ pc' = "returned"
    /\ UNCHANGED <<submitted, st, results, completed, total, warnings, reply, requests>>
    /\ UNCHANGED <<collectorVars, mainVars, queryVars, gateVars, limiterVars>>

Next ==
    \/ Submit
    \/ StartCollect
    \/ \E i \in Units : WorkerStart(i)
    \/ \E i \in Units : GateRetry(i)
    \/ Tick
    \/ \E i \in Units : NetDone(i)
    \/ \E i \in Units : Collect(i)
    \/ Return

Spec == Init /\ [][Next]_vars

\* the batch under fair scheduling: a step that can be taken is taken
FairSpec == Spec /\ WF_vars(Next)

----------------------------------------------------------------------------
(* parallel_process_queries with one turn of the as_completed loop taken
   step by step: future.result(), results.append, and update_progress with
   its `with progress_lock:` block *)

\* the thread that called parallel_process_queries, as a holder of
\* progress_lock; the pool thread that runs unit i is named i, 0 is nobody
CallingThread == -1

\* the unit whose future the loop is working on
Collecting == {i \in Units : st[i] = "COLLECTING"}

\* lines 216-222 up to the append: future.result() returns or raises
TakeResult(i) ==
    /\ i \in Units
    /\ pc = "collect"
    /\ cpc = "loop"
    /\ st[i] = "FINISHED"
    /\ IF Raises(i)
       THEN /\ warnings' = warnings (+) SetToBag({<<search_queries[i].keyword,
                                                    search_queries[i].location>>})
            /\ cpc' = "update_progress"
       ELSE /\ warnings' = warnings
            /\ cpc' = IF Truthy(FutureResult(i)) THEN "append" ELSE "update_progress"
    /\ st' = [st EXCEPT ![i] = "COLLECTING"]
    /\ UNCHANGED <<pc, submitted, results, completed, total, reply, requests, progress_lock>>
    /\ UNCHANGED <<mainVars, queryVars, gateVars, limiterVars>>

\* line 220: results.append(result)
AppendResult ==
    /\ cpc = "append"
    /\ \E i \in Collecting : results' = Append(results, FutureResult(i))
    /\ cpc' = "update_progress"
    /\ UNCHANGED <<pc, submitted, st, completed, total, warnings, reply, requests,
                   progress_lock>>
    /\ UNCHANGED <<mainVars, queryVars, gateVars, limiterVars>>

\* line 203: `with progress_lock:` is entered
ProgressAcquire ==
    /\ cpc = "update_progress"
    /\ progress_lock = 0
    /\ progress_lock' = CallingThread
    /\ cpc' = "locked"
    /\ UNCHANGED <<mainVars, queryVars, batchVars, gateVars, limiterVars>>

\* lines 204-207 and the end of the with block: the counter goes up, the
\* progress bar is redrawn, progress_lock is released; the turn is over
ProgressUpdate ==
    /\ cpc = "locked"
    /\ completed' = update_progress(completed)
    /\ progress_lock' = 0
    /\ cpc' = "loop"
    /\ st' = [i \in Units |-> IF i \in Collecting THEN "COLLECTED" ELSE st[i]]
    /\ UNCHANGED <<pc, submitted, results, total, warnings, reply, requests>>
    /\ UNCHANGED <<mainVars, queryVars, gateVars, limiterVars>>

StepNext ==
    \/ Submit
    \/ StartCollect
    \/ \E i \in Units : WorkerStart(i)
    \/ \E i \in Units : GateRetry(i)
    \/ Tick
    \/ \E i \in Units : NetDone(i)
    \/ \E i \in Units : TakeResult(i)
    \/ AppendResult
    \/ ProgressAcquire
    \/ ProgressUpdate
    \/ Return

StepSpec == Init /\ [][StepNext]_vars

----------------------------------------------------------------------------
(* ThreadSafeRateLimiter, lines 18-30 *)

\* number of threads that call wait()
MaxThreads == 2

\* number of wait() calls one thread makes
MaxCalls == 2

\* the clock is followed up to this time, and past it while a thread sleeps
MaxClock == 3

Threads == DOMAIN lpc

\* 1.0 / calls_per_second for calls_per_second = 1 and for the 0.5 of
\* geocoding_limiter, line 92
Intervals == {1, 2}

\* state after __init__, lines 19-22
LimiterInit ==
    /\ keyword_list = <<>>
    /\ valid_locations = <<>>
    /\ search_queries = <<>>
    /\ target_url = <<>>
    /\ QueryIdle
    /\ InputIdle
    /\ DisplayIdle
    /\ CollectorIdle
    /\ pc = "idle"
    /\ BatchIdle
    /\ now = 0
    /\ last_call = 0
    /\ interval \in Intervals
    /\ lock = 0
    /\ \E n \in 1..MaxThreads :
          /\ lpc = [t \in 1..n |-> "idle"]
          /\ wake_at = [t \in 1..n |-> 0]
          /\ calls_left \in [1..n -> 1..MaxCalls]
    /\ grants = <<>>

\* a wait() that does not take the lock before it looks at last_call
WaitEnterUnlocked(t) ==
    /\ t \in Threads
    /\ lpc[t] = "idle"
    /\ calls_left[t] > 0
    /\ LET time_to_wait == Max(0, interval - (now - last_call))
       IN /\ wake_at' = [wake_at EXCEPT ![t] = now + time_to_wait]
          /\ lpc' = [lpc EXCEPT ![t] = IF time_to_wait > 0 THEN "sleeping" ELSE "stamp"]
    /\ UNCHANGED <<now, last_call, interval, lock, calls_left, grants>>
    /\ UNCHANGED <<collectorVars, mainVars, queryVars, batchVars, gateVars>>

\* lines 25-28: take the lock, read the clock, work out time_to_wait
WaitEnter(t) ==
    /\ t \in Threads
    /\ lpc[t] = "idle"
    /\ calls_left[t] > 0
    /\ lock = 0
    /\ lock' = t
    /\ LET time_to_wait == Max(0, interval - (now - last_call))
       IN /\ wake_at' = [wake_at EXCEPT ![t] = now + time_to_wait]
          /\ lpc' = [lpc EXCEPT ![t] = IF time_to_wait > 0 THEN "sleeping" ELSE "stamp"]
    /\ UNCHANGED <<now, last_call, interval, calls_left, grants>>
    /\ UNCHANGED <<collectorVars, mainVars, queryVars, batchVars, gateVars>>

\* line 29: time.sleep(time_to_wait) returns once that much time has passed
WaitWake(t) ==
    /\ t \in Threads
    /\ lpc[t] = "sleeping"
    /\ now >= wake_at[t]
    /\ lpc' = [lpc EXCEPT ![t] = "stamp"]
    /\ UNCHANGED <<now, last_call, interval, lock, wake_at, calls_left, grants>>
    /\ UNCHANGED <<collectorVars, mainVars, queryVars, batchVars, gateVars>>

\* a wait() that returns without giving the lock back
WaitStampKeepLock(t) ==
    /\ t \in Threads
    /\ lpc[t] = "stamp"
    /\ last_call' = now
    /\ grants' = Append(grants, now)
    /\ lpc' = [lpc EXCEPT ![t] = "idle"]
    /\ calls_left' = [calls_left EXCEPT ![t] = calls_left[t] - 1]
    /\ UNCHANGED <<now, interval, lock, wake_at>>
    /\ UNCHANGED <<collectorVars, mainVars, queryVars, batchVars, gateVars>>

\* line 30 and the end of the with block: stamp last_call, release, return
WaitStamp(t) ==
    /\ t \in Threads
    /\ lpc[t] = "stamp"
    /\ last_call' = now
    /\ grants' = Append(grants, now)
    /\ lock' = 0
    /\ lpc' = [lpc EXCEPT ![t] = "idle"]
    /\ calls_left' = [calls_left EXCEPT ![t] = calls_left[t] - 1]
    /\ UNCHANGED <<now, interval, wake_at>>
    /\ UNCHANGED <<collectorVars, mainVars, queryVars, batchVars, gateVars>>

\* one second passes for the limiter
ClockTick ==
    /\ Threads # {}
    /\ now < MaxClock \/ \E t \in Threads : lpc[t] = "sleeping" /\ wake_at[t] > now
    /\ now' = now + 1
    /\ UNCHANGED <<last_call, interval, lock, lpc, wake_at, calls_left, grants>>
    /\ UNCHANGED <<collectorVars, mainVars, queryVars, batchVars, gateVars>>

LimiterNext ==
    \/ \E t \in Threads : WaitEnter(t)
    \/ \E t \in Threads : WaitWake(t)
    \/ \E t \in Threads : WaitStamp(t)
    \/ ClockTick

LimiterSpec == LimiterInit /\ [][LimiterNext]_vars

----------------------------------------------------------------------------
(* Both acquire operations, each with its callers, under fair scheduling *)

AcquireInit == Init \/ LimiterInit

AcquireNext == Next \/ LimiterNext

AcquireSpec == AcquireInit /\ [][AcquireNext]_vars /\ WF_vars(AcquireNext)

----------------------------------------------------------------------------
(* main and process_query on one query: the target as typed, lines 640-646,
   the required-fields test, lines 673-676, and process_query *)

MaxTargetLen == 2

MaxDomainLen == 2

MaxResults == 2

\* what the user can type: letters in either case, and the pieces main strips
TargetAlphabet == {"a", "A", "b", "www.", "https://", "/"}

DomainAlphabet == {"a", "A", "b"}

OrganicItems ==
    [has_domain : {TRUE}, domain : SeqsUpTo(DomainAlphabet, MaxDomainLen)]
    \cup {[has_domain |-> FALSE, domain |-> <<>>]}

JsonAnswers ==
    [tag                : {"json"},
     organic_results    : SeqsUpTo(OrganicItems, MaxResults),
     local_results      : {<<>>},
     has_local_pack     : {FALSE},
     local_pack_results : {<<>>}]

Answers == JsonAnswers \cup {NoneValue, [tag |-> "empty"]}

QueryInit ==
    /\ keyword_list = <<"plumber">>
    /\ valid_locations = <<LocationPool[2]>>
    /\ search_queries = CreateSearchQueries(valid_locations, keyword_list)
    /\ target_url \in NonEmptySeqsUpTo(TargetAlphabet, MaxTargetLen)
    /\ serp_data \in Answers
    /\ record = Unset
    /\ InputIdle
    /\ DisplayIdle
    /\ CollectorIdle
    /\ pc = "input"
    /\ BatchIdle
    /\ LimiterIdle

\* lines 645-646 and 673-676: strip the target; an empty one ends the run
NormalizeInput ==
    /\ pc = "input"
    /\ target_url' = NormalizeTarget(target_url)
    /\ pc' = IF target_url' = <<>> THEN "rejected" ELSE "normalized"
    /\ UNCHANGED <<serp_data, record>>
    /\ UNCHANGED <<submitted, st, results, completed, total, warnings, reply, requests>>
    /\ UNCHANGED <<collectorVars, mainVars, gateVars, limiterVars>>

\* process_query on the provider's answer
ProcessQuery ==
    /\ pc = "normalized"
    /\ record' = process_query(search_queries[1], target_url, serp_data)
    /\ pc' = "processed"
    /\ UNCHANGED <<target_url, serp_data>>
    /\ UNCHANGED <<submitted, st, results, completed, total, warnings, reply, requests>>
    /\ UNCHANGED <<collectorVars, mainVars, gateVars, limiterVars>>

QueryNext == NormalizeInput \/ ProcessQuery

QuerySpec == QueryInit /\ [][QueryNext]_vars

----------------------------------------------------------------------------
(* main: the query-building step on its own *)

MaxKeywords == 2

MaxLocations == 3

Keywords == {"plumber", "roofer"}

Locations == {LocationPool[1], LocationPool[2],
              [kind |-> "city_state", city |-> "Dallas", state |-> "TX"]}

\* before line 773: keyword_list may be empty (blank lines only),
\* valid_locations is not (line 769)
BuilderInit ==
    /\ keyword_list \in SeqsUpTo(Keywords, MaxKeywords)
    /\ valid_locations \in NonEmptySeqsUpTo(Locations, MaxLocations)
    /\ search_queries = <<>>
    /\ target_url = BatchTarget
    /\ QueryIdle
    /\ InputIdle
    /\ DisplayIdle
    /\ CollectorIdle
    /\ pc = "build"
    /\ BatchIdle
    /\ LimiterIdle

\* lines 773-786
BuildQueries ==
    /\ pc = "build"
    /\ search_queries' = CreateSearchQueries(valid_locations, keyword_list)
    /\ pc' = "built"
    /\ UNCHANGED <<keyword_list, valid_locations>>
    /\ UNCHANGED <<submitted, st, results, completed, total, warnings, reply, requests>>
    /\ UNCHANGED <<inputVars, displayVars, collectorVars, queryVars, gateVars, limiterVars>>

BuilderNext == BuildQueries

BuilderSpec == BuilderInit /\ [][BuilderNext]_vars

----------------------------------------------------------------------------
(* main: the results display, lines 801-913, and generate_html_report,
   lines 517-577 *)

DigitValue(c) == CHOOSE d \in 0..9 : Digits(d) = <<c>>

\* float() of a string of decimal digits
RECURSIVE ParseNumber(_)
ParseNumber(s) ==
    IF s = <<>> THEN 0
    ELSE 10 * ParseNumber(SubSeq(s, 1, Len(s) - 1)) + DigitValue(s[Len(s)])

\* the key of the pivot's aggfunc, line 903: float('inf') for the sentinel,
\* else the number behind '#'; <<1, 0>> stands for infinity, <<0, k>> for k
RankKey(y) ==
    IF y = NotOnPage1 THEN <<1, 0>> ELSE <<0, ParseNumber(RemoveToken(y, "#"))>>

KeyGreater(a, b) == a[1] > b[1] \/ (a[1] = b[1] /\ a[2] > b[2])

\* Python's max(x, key=...): the first element whose key none exceeds
RECURSIVE PyMaxFrom(_, _, _)
PyMaxFrom(x, best, n) ==
    IF n > Len(x) THEN best
    ELSE PyMaxFrom(x, IF KeyGreater(RankKey(x[n]), RankKey(best)) THEN x[n] ELSE best, n + 1)

PyMax(x) == PyMaxFrom(x, x[1], 2)

\* the (location, keyword) keys that occur in the records
Keys(rs) == {<<rs[n].location, rs[n].keyword>> : n \in 1..Len(rs)}

\* the target_position values filed under one key, in the order of the records
GroupValues(rs, key) ==
    LET mine == SelectSeq(rs, LAMBDA r : <<r.location, r.keyword>> = key)
    IN [n \in 1..Len(mine) |-> mine[n].target_position]

\* pd.pivot_table(index='location', columns='keyword', values='target_position',
\* aggfunc=lambda x: max(x, key=...)), lines 897-905
pivot_table(rs) == [key \in Keys(rs) |-> PyMax(GroupValues(rs, key))]

\* the dict comprehension of line 522: a later record replaces an earlier one
ranking_matrix(rs) ==
    [key \in Keys(rs) |-> GroupValues(rs, key)[Len(GroupValues(rs, key))]]

\* '#' in r['target_position']
HasHash(position) == Contains(<<"#">>, position)

ranked_queries(rs) == Cardinality({n \in 1..Len(rs) : HasHash(rs[n].target_position)})

\* records whose local_results list is not empty
total_local_listings(rs) == Cardinality({n \in 1..Len(rs) : rs[n].local_results # <<>>})

\* (business.get('website') or ''), (business.get('link') or '')
WebsiteOf(business) == IF business.has_website THEN business.website ELSE <<>>

LinkOf(business) == IF business.has_link THEN business.link ELSE <<>>

\* the test of lines 817-822 and 565-570 on one local listing
MatchesLocal(target, business) ==
    \/ Contains(LowerStr(target), LowerStr(WebsiteOf(business)))
    \/ Contains(LowerStr(target), LowerStr(LinkOf(business)))

in_top_3_local(rs, target) ==
    Cardinality({n \in 1..Len(rs) :
                    \E k \in 1..Len(Take(rs[n].local_results, 3)) :
                        MatchesLocal(target, rs[n].local_results[k])})

\* f"{(n / d * 100):.1f}" as tenths of a percent, rounded to the nearest;
\* n / 0 raises ZeroDivisionError
FormatRate(n, d) ==
    IF d = 0 THEN [tag |-> "ZeroDivisionError"]
    ELSE [tag |-> "str", tenths |-> (2000 * n + d) \div (2 * d)]

\* the literal "0.0"
ZeroRate == [tag |-> "str", tenths |-> 0]

\* lines 827 and 575-577
local_rate(rs, target) ==
    IF total_local_listings(rs) > 0
    THEN FormatRate(in_top_3_local(rs, target), total_local_listings(rs))
    ELSE ZeroRate

\* the summary cards, lines 808-891; the third card divides by total_queries
Summary(rs, target) ==
    [total_queries        |-> Len(rs),
     ranked_queries       |-> ranked_queries(rs),
     ranking_rate         |-> FormatRate(ranked_queries(rs), Len(rs)),
     total_local_listings |-> total_local_listings(rs),
     in_top_3_local       |-> in_top_3_local(rs, target),
     local_rate           |-> local_rate(rs, target)]

\* what generate_html_report works out for the template, lines 517-577
generate_html_report(rs, target) ==
    [keywords             |-> {rs[n].keyword : n \in 1..Len(rs)},
     locations            |-> {rs[n].location : n \in 1..Len(rs)},
     ranking_matrix       |-> ranking_matrix(rs),
     total_queries        |-> Len(rs),
     ranked_queries       |-> ranked_queries(rs),
     ranking_rate         |-> FormatRate(ranked_queries(rs), Len(rs)),
     total_local_listings |-> total_local_listings(rs),
     in_top_3_local       |-> in_top_3_local(rs, target),
     local_rate           |-> local_rate(rs, target)]

\* lines 801-913: the batch has returned, analysis_complete is set, and the
\* results are displayed; an exception leaves main
Display ==
    /\ pc = "returned"
    /\ summary' = Summary(results, target_url)
    /\ IF summary'.ranking_rate.tag = "ZeroDivisionError"
       THEN /\ pc' = "crashed"
            /\ error' = "ZeroDivisionError"
            /\ pivot_data' = pivot_data
       ELSE /\ pc' = "displayed"
            /\ error' = error
            /\ pivot_data' = pivot_table(results)
    /\ UNCHANGED <<keywords_text, locations_text, processed_locations, invalid_locations,
                   geocodable, geocoded, chunk_st, chunk_valid, skipped_locations>>
    /\ UNCHANGED <<keyword_list, valid_locations, search_queries, report>>
    /\ UNCHANGED <<submitted, st, results, completed, total, warnings, reply, requests>>
    /\ UNCHANGED <<collectorVars, queryVars, gateVars, limiterVars>>

\* lines 934-935
GenerateReport ==
    /\ pc = "displayed"
    /\ report' = generate_html_report(results, target_url)
    /\ IF report'.ranking_rate.tag = "ZeroDivisionError"
       THEN pc' = "crashed" /\ error' = "ZeroDivisionError"
       ELSE pc' = "reported" /\ error' = error
    /\ UNCHANGED <<keywords_text, locations_text, processed_locations, invalid_locations,
                   geocodable, geocoded, chunk_st, chunk_valid, skipped_locations>>
    /\ UNCHANGED <<keyword_list, valid_locations, search_queries, summary, pivot_data>>
    /\ UNCHANGED <<submitted, st, results, completed, total, warnings, reply, requests>>
    /\ UNCHANGED <<collectorVars, queryVars, gateVars, limiterVars>>

----------------------------------------------------------------------------
(* The display and the report on a list of result records *)

\* longest list of result records
MaxRecords == 3

\* result records can share a key: the user may list a location twice, and
\* the provider may answer the two calls differently
AggPositions == {HashRank(2), HashRank(10), NotOnPage1}

\* a local listing whose website names the target, and one that does not
AggListings ==
    {<<>>,
     <<[has_website |-> TRUE, website |-> <<"A">>, has_link |-> FALSE, link |-> <<>>]>>,
     <<[has_website |-> FALSE, website |-> <<>>, has_link |-> TRUE, link |-> <<"b">>]>>}

AggRecords ==
    [tag             : {"dict"},
     keyword         : {"plumber", "roofer"},
     location        : {"78701"},
     target_position : AggPositions,
     organic_results : {<<>>},
     local_results   : AggListings]

\* parallel_process_queries has returned `results`
AggInit ==
    /\ keyword_list = <<>>
    /\ valid_locations = <<>>
    /\ search_queries = <<>>
    /\ target_url = BatchTarget
    /\ QueryIdle
    /\ InputIdle
    /\ DisplayIdle
    /\ CollectorIdle
    /\ pc = "returned"
    /\ submitted = 0
    /\ st = <<>>
    /\ results \in SeqsUpTo(AggRecords, MaxRecords)
    /\ completed = 0
    /\ total = 0
    /\ warnings = EmptyBag
    /\ reply = <<>>
    /\ requests = 0
    /\ num_calls = 0
    /\ window = PERIOD
    /\ sleep_left = <<>>
    /\ LimiterIdle

AggNext == Display \/ GenerateReport

AggSpec == AggInit /\ [][AggNext]_vars

----------------------------------------------------------------------------
(* main: one run of the analysis, lines 674-803.  A line of a text area is a
   sequence of tokens: single digits, words, "," and " " *)

DigitChars == {"0", "1", "2", "3", "4", "5", "6", "7", "8", "9"}

RECURSIVE LStrip(_)
LStrip(s) == IF s # <<>> /\ Head(s) = " " THEN LStrip(Tail(s)) ELSE s

RECURSIVE RStrip(_)
RStrip(s) ==
    IF s # <<>> /\ s[Len(s)] = " " THEN RStrip(SubSeq(s, 1, Len(s) - 1)) ELSE s

\* str.strip()
Strip(s) == LStrip(RStrip(s))

\* str.isdigit()
IsDigit(s) == s # <<>> /\ \A n \in 1..Len(s) : s[n] \in DigitChars

\* str.split(',')
RECURSIVE Split(_)
Split(s) ==
    IF \A n \in 1..Len(s) : s[n] # "," THEN <<s>>
    ELSE LET n == CHOOSE m \in 1..Len(s) : s[m] = "," /\ \A k \in 1..(m - 1) : s[k] # ","
         IN <<SubSeq(s, 1, n - 1)>> \o Split(SubSeq(s, n + 1, Len(s)))

\* the tokens of a line as one string
RECURSIVE Join(_)
Join(s) == IF s = <<>> THEN "" ELSE Head(s) \o Join(Tail(s))

\* `not text` for a text area: ''.split('\n') is ['']
EmptyText(text) == text = <<<<>>>>

\* [k.strip() for k in text.split('\n') if k.strip()], lines 683-684
StrippedLines(text) ==
    LET kept == SelectSeq(text, LAMBDA k : Strip(k) # <<>>)
    IN [n \in 1..Len(kept) |-> Strip(kept[n])]

\* lines 694-707 on one line: a location, or an entry of invalid_locations
ParseLocation(loc) ==
    IF IsDigit(loc)
    THEN IF Len(loc) = 5
         THEN [tag |-> "ok", location |-> [kind |-> "zip", zip |-> Join(loc)]]
         ELSE [tag |-> "invalid", line |-> Join(loc)]
    ELSE LET parts == [n \in 1..Len(Split(loc)) |-> Strip(Split(loc)[n])]
         IN IF Len(parts) = 2
            THEN [tag |-> "ok",
                  location |-> [kind |-> "city_state", city |-> Join(parts[1]),
                                state |-> Join(parts[2])]]
            ELSE [tag |-> "invalid", line |-> Join(loc)]

\* the loop of lines 689-707
ProcessedLocations(location_list) ==
    LET ok == SelectSeq(location_list, LAMBDA loc : ParseLocation(loc).tag = "ok")
    IN [n \in 1..Len(ok) |-> ParseLocation(ok[n]).location]

InvalidLocations(location_list) ==
    LET bad == SelectSeq(location_list, LAMBDA loc : ParseLocation(loc).tag = "invalid")
    IN [n \in 1..Len(bad) |-> ParseLocation(bad[n]).line]

\* validate_location, lines 103-107: what is handed to geolocator.geocode
SearchTerm(location) ==
    IF IsZip(location) THEN location.zip \o ", USA"
    ELSE location.city \o ", " \o location.state \o ", USA"

\* a validate_location that takes every answer of the geocoder for a place
validate_locationAcceptAll(location) == TRUE

\* validate_location, lines 94-128: True if the geocoder resolves the search
\* term; no place found or an exception gives False
validate_location(location) == SearchTerm(location) \in geocodable

\* validate_location_batch, lines 729-730
validate_location_batch(chunk) == SelectSeq(chunk, validate_location)

\* lines 734-736
chunk_size(processed) == Max(1, Len(processed) \div 3)

location_chunks(processed) ==
    LET size == chunk_size(processed)
        n    == (Len(processed) + size - 1) \div size
    IN [c \in 1..n |-> SubSeq(processed, (c - 1) * size + 1, Min(c * size, Len(processed)))]

\* lines 748-755: the locations of the chunk that are not among the valid ones
Skipped(chunk, chunk_valid_locations) ==
    LET missing == SelectSeq(chunk, LAMBDA loc :
                       \A n \in 1..Len(chunk_valid_locations) : chunk_valid_locations[n] # loc)
    IN [n \in 1..Len(missing) |-> LocationString(missing[n])]

\* geocoding_limiter.wait() called m times in a row by one thread, lines 24-30:
\* the times stamped into last_call
RECURSIVE WaitTimes(_, _, _)
WaitTimes(clock, last, m) ==
    IF m = 0 THEN <<>>
    ELSE LET time_to_wait == Max(0, interval - (clock - last))
         IN <<clock + time_to_wait>>
            \o WaitTimes(clock + time_to_wait, clock + time_to_wait, m - 1)

\* lines 675-739: the required-fields test, the format check of the location
\* lines, and the submission of the chunks to the validation pool
ProcessInputs ==
    /\ pc = "normalized"
    /\ IF EmptyText(keywords_text) \/ EmptyText(locations_text)
       THEN /\ error' = "required_fields"
            /\ pc' = "rejected"
            /\ UNCHANGED <<keyword_list, processed_locations, invalid_locations,
                           chunk_st, chunk_valid>>
       ELSE /\ keyword_list' = [n \in 1..Len(StrippedLines(keywords_text)) |->
                                   Join(StrippedLines(keywords_text)[n])]
            /\ processed_locations' = ProcessedLocations(StrippedLines(locations_text))
            /\ invalid_locations' = InvalidLocations(StrippedLines(locations_text))
            /\ IF invalid_locations' # <<>>
               THEN /\ error' = "invalid_locations"
                    /\ pc' = "rejected"
                    /\ UNCHANGED <<chunk_st, chunk_valid>>
               ELSE /\ error' = error
                    /\ pc' = "validate"
                    /\ chunk_st' = [c \in DOMAIN location_chunks(processed_locations') |->
                                       "PENDING"]
                    /\ chunk_valid' = [c \in DOMAIN location_chunks(processed_locations') |->
                                          <<>>]
    /\ UNCHANGED <<keywords_text, locations_text, geocodable, geocoded, skipped_locations>>
    /\ UNCHANGED <<valid_locations, search_queries, displayVars>>
    /\ UNCHANGED <<queryVars, submitted, st, results, completed, total, warnings,
                   reply, requests, collectorVars, gateVars, limiterVars>>

\* the one thread of the validation pool runs validate_location_batch on the
\* oldest queued chunk: wait() and geocode() for each of its locations
ValidateChunk(c) ==
    /\ pc = "validate"
    /\ c \in DOMAIN chunk_st
    /\ chunk_st[c] = "PENDING"
    /\ \A b \in 1..(c - 1) : chunk_st[b] # "PENDING"
    /\ LET chunk == location_chunks(processed_locations)[c]
           times == WaitTimes(now, last_call, Len(chunk))
       IN /\ geocoded' = geocoded \o [n \in 1..Len(chunk) |-> SearchTerm(chunk[n])]
          /\ chunk_valid' = [chunk_valid EXCEPT ![c] = validate_location_batch(chunk)]
          /\ grants' = grants \o times
          /\ now' = IF times = <<>> THEN now ELSE times[Len(times)]
          /\ last_call' = IF times = <<>> THEN last_call ELSE times[Len(times)]
    /\ chunk_st' = [chunk_st EXCEPT ![c] = "FINISHED"]
    /\ UNCHANGED <<interval, lock, lpc, wake_at, calls_left>>
    /\ UNCHANGED <<keywords_text, locations_text, processed_locations, invalid_locations,
                   geocodable, skipped_locations, error>>
    /\ UNCHANGED <<keyword_list, valid_locations, search_queries, displayVars>>
    /\ UNCHANGED <<pc, queryVars, submitted, st, results, completed, total, warnings,
                   reply, requests, collectorVars, gateVars>>

\* one turn of the as_completed loop over the chunks, lines 742-760
CollectChunk(c) ==
    /\ pc = "validate"
    /\ c \in DOMAIN chunk_st
    /\ chunk_st[c] = "FINISHED"
    /\ skipped_locations' = skipped_locations
           \o Skipped(location_chunks(processed_locations)[c], chunk_valid[c])
    /\ valid_locations' = valid_locations \o chunk_valid[c]
    /\ chunk_st' = [chunk_st EXCEPT ![c] = "COLLECTED"]
    /\ UNCHANGED <<keywords_text, locations_text, processed_locations, invalid_locations,
                   geocodable, geocoded, chunk_valid, error>>
    /\ UNCHANGED <<keyword_list, search_queries, displayVars>>
    /\ UNCHANGED <<queryVars, batchVars, collectorVars, gateVars, limiterVars>>

\* lines 762-771: the warning names skipped_locations; without a valid
\* location the run ends
FinishValidation ==
    /\ pc = "validate"
    /\ \A c \in DOMAIN chunk_st : chunk_st[c] = "COLLECTED"
    /\ IF valid_locations = <<>>
       THEN error' = "no_valid_locations" /\ pc' = "rejected"
       ELSE error' = error /\ pc' = "build"
    /\ UNCHANGED <<keywords_text, locations_text, processed_locations, invalid_locations,
                   geocodable, geocoded, chunk_st, chunk_valid, skipped_locations>>
    /\ UNCHANGED <<keyword_list, valid_locations, search_queries, displayVars>>
    /\ UNCHANGED <<queryVars, submitted, st, results, completed, total, warnings,
                   reply, requests, collectorVars, gateVars, limiterVars>>

\* line 792 and lines 195-199: main calls parallel_process_queries
CallBatch ==
    /\ pc = "built"
    /\ pc' = "submit"
    /\ submitted' = 0
    /\ st' = [i \in 1..Len(search_queries) |-> "new"]
    /\ results' = <<>>
    /\ completed' = 0
    /\ total' = Len(search_queries)
    /\ warnings' = EmptyBag
    /\ reply' = [i \in 1..Len(search_queries) |-> Unset]
    /\ requests' = 0
    /\ sleep_left' = [i \in 1..Len(search_queries) |-> 0]
    /\ UNCHANGED <<num_calls, window>>
    /\ UNCHANGED <<mainVars, queryVars, collectorVars, limiterVars>>

\* what the user typed into the two text areas
KeywordTexts ==
    {<<<<>>>>,
     <<<<" ">>>>,
     <<<<"plumber">>>>,
     <<<<"plumber", " ">>, <<>>, <<"roofer">>>>}

ZipLine == <<"7", "8", "7", "0", "1">>

LocationTexts ==
    {<<<<>>>>,
     <<ZipLine>>,
     <<ZipLine, <<"Austin", ",", " ", "TX">>>>,
     <<ZipLine, ZipLine, ZipLine>>,
     <<ZipLine, <<"Austin">>>>,
     <<<<"7", "8", "7", "0">>, ZipLine>>,
     <<<<"Austin", ",", "TX", ",", "USA">>>>,
     <<ZipLine, <<" ">>, <<"Austin", ",">>>>}

TargetTexts == {<<"www.", "a">>, <<"www.", "/">>}

\* the search terms the location lines of a text lead to
SearchTerms(text) ==
    {SearchTerm(ProcessedLocations(StrippedLines(text))[n]) :
        n \in 1..Len(ProcessedLocations(StrippedLines(text)))}

\* the user has pressed the button, line 674; geocoding_limiter was made at
\* load time, line 92, and time.time() is far past its last_call = 0
MainInit ==
    /\ keywords_text \in KeywordTexts
    /\ locations_text \in LocationTexts
    /\ target_url \in TargetTexts
    /\ geocodable \in SUBSET SearchTerms(locations_text)
    /\ processed_locations = <<>>
    /\ invalid_locations = <<>>
    /\ geocoded = <<>>
    /\ chunk_st = <<>>
    /\ chunk_valid = <<>>
    /\ skipped_locations = <<>>
    /\ error = "none"
    /\ keyword_list = <<>>
    /\ valid_locations = <<>>
    /\ search_queries = <<>>
    /\ QueryIdle
    /\ DisplayIdle
    /\ CollectorIdle
    /\ pc = "input"
    /\ BatchIdle
    /\ now = 2
    /\ last_call = 0
    /\ interval = 2
    /\ lock = 0
    /\ lpc = <<>>
    /\ wake_at = <<>>
    /\ calls_left = <<>>
    /\ grants = <<>>

MainNext ==
    \/ NormalizeInput
    \/ ProcessInputs
    \/ \E c \in DOMAIN chunk_st : ValidateChunk(c)
    \/ \E c \in DOMAIN chunk_st : CollectChunk(c)
    \/ FinishValidation
    \/ BuildQueries
    \/ CallBatch
    \/ Next
    \/ Display
    \/ GenerateReport

MainSpec == MainInit /\ [][MainNext]_vars

----------------------------------------------------------------------------
(* Properties *)

Pair(i) == <<search_queries[i].keyword, search_queries[i].location>>

Succeeded(i) == reply[i].tag = "json"

\* number of entries of the list s equal to r
Count(s, r) == Cardinality({n \in 1..Len(s) : s[n] = r})

\* C1: a unit that fails (None or an exception) does not end the batch: when
\* parallel_process_queries returns, every submitted unit has been executed
\* and collected, and the record of every unit that succeeded is in the
\* returned list.
C1_FailureIsolated ==
    pc = "returned" =>
        \A i \in Units :
            /\ reply[i] # Unset
            /\ st[i] = "COLLECTED"
            /\ Succeeded(i) => \E n \in 1..Len(results) : results[n] = FutureResult(i)

\* a returned batch in which one unit raised, one came back None and the
\* others succeeded
C1_Witness ==
    /\ pc = "returned"
    /\ \E i, j, k \in Units :
          /\ reply[i].tag = "Exception"
          /\ reply[j].tag = "RequestException"
          /\ Succeeded(k)
          /\ i < k /\ j < k

\* C2: on return the list holds, for every record, as many copies as there
\* are succeeded units that produce it, and nothing else: one record per
\* succeeded unit, none twice, none for a failed unit.
C2_ExactlyOnePerSuccess ==
    pc = "returned" =>
        /\ Len(results) = Cardinality({i \in Units : Succeeded(i)})
        /\ \A n \in 1..Len(results) :
              /\ results[n].tag = "dict"
              /\ Count(results, results[n])
                    = Cardinality({i \in Units : Succeeded(i) /\ FutureResult(i) = results[n]})
        /\ \A i \in Units : Succeeded(i) => Count(results, FutureResult(i)) >= 1

\* a returned batch with two succeeded units of the same (keyword, location)
\* and a failed unit
C2_Witness ==
    /\ pc = "returned"
    /\ \E i, j, k \in Units :
          /\ i # j /\ Pair(i) = Pair(j)
          /\ Succeeded(i) /\ Succeeded(j)
          /\ reply[k].tag = "RequestException"

\* C3: at every moment the list holds no more records than units were
\* submitted, and every record carries the keyword and location of a
\* submitted unit.
C3_RecordsFromUnits ==
    /\ Len(results) <= Len(search_queries)
    /\ \A n \in 1..Len(results) :
          \E i \in 1..Len(search_queries) :
              /\ results[n].keyword = search_queries[i].keyword
              /\ results[n].location = search_queries[i].location

\* a batch in progress with as many records as units, of different pairs
C3_Witness ==
    /\ Len(results) = Len(search_queries)
    /\ Len(results) >= 4
    /\ results[1].location # results[2].location

ProgressInv ==
    /\ completed = Cardinality({i \in Units : st[i] = "COLLECTED"})
    /\ (completed = total => \A i \in Units : st[i] \in {"FINISHED", "COLLECTED"})
    /\ (pc = "returned" => completed = total)

\* C4: `completed` never decreases, grows by one with each unit taken from
\* as_completed (whatever its outcome) and so counts every unit once, is
\* equal to `total` on return, and is not equal to `total` while a unit is
\* still not terminal.
C4_ProgressCounter ==
    [][/\ ProgressInv
       /\ ProgressInv'
       /\ completed' >= completed
       /\ completed' <= completed + 1]_vars

\* a batch that has returned with the counter at a total of six, one unit
\* having raised and one having come back None
C4_Witness ==
    /\ pc = "returned"
    /\ completed = 6
    /\ total = 6
    /\ \E i, j \in Units : reply[i].tag = "Exception" /\ reply[j].tag = "RequestException"

\* C5: parallel_process_queries returns only when every unit is terminal,
\* and under fair scheduling, every provider call ending, it does return.
C5_Returns ==
    /\ [](pc = "returned" => \A i \in Units : st[i] = "COLLECTED")
    /\ <>(pc = "returned")

\* a six-unit batch that has returned, with a failure among the units
C5_Witness ==
    /\ pc = "returned"
    /\ total = 6
    /\ requests = 6
    /\ Failed # {}

\* C6: on return, every unit whose provider call failed has been named by
\* exactly one warning: the number of warnings that name a (keyword,
\* location) is the number of failed units with that pair.
C6_WarningPerFailedUnit ==
    pc = "returned" =>
        \A i \in Units :
            reply[i].tag = "RequestException" =>
                CopiesIn(Pair(i), warnings)
                    = Cardinality({j \in Units : j \in Failed /\ Pair(j) = Pair(i)})

\* C7: successive grants of ThreadSafeRateLimiter are at least
\* 1/calls_per_second apart, last_call is the latest grant, and for
\* calls_per_second = 1 any N grants span at least N-1 seconds.
C7_GrantsSpaced ==
    /\ \A n \in 2..Len(grants) : grants[n] - grants[n - 1] >= interval
    /\ grants # <<>> => last_call = grants[Len(grants)]
    /\ (interval = 1 /\ grants # <<>>) => grants[Len(grants)] - grants[1] >= Len(grants) - 1

\* two threads have been granted twice each
C7_Witness ==
    /\ Len(grants) = 4
    /\ Cardinality(Threads) = 2
    /\ \A t \in Threads : calls_left[t] = 0 /\ lpc[t] = "idle"

AllWaitsReturned == \A t \in Threads : lpc[t] = "idle" /\ calls_left[t] = 0

AllProviderCallsAdmitted == requests = total

\* C8: under fair scheduling every call of wait() returns and every worker
\* that enters the provider gate is let through to its request.
C8_NeverDeniedForever == <>[](AllWaitsReturned /\ AllProviderCallsAdmitted)

\* every thread of the limiter has been granted all its calls, after waits
C8_Witness ==
    /\ Threads # {}
    /\ AllWaitsReturned
    /\ Len(grants) >= 3

\* element of R matches T ignoring case
MatchesIgnoringCase(T, item) == Contains(LowerStr(T), LowerStr(DomainOf(item)))

ExpectedPosition(T, R) ==
    LET hits == {k \in 1..Len(R) : MatchesIgnoringCase(T, R[k])}
    IN IF hits = {} THEN NotOnPage1
       ELSE HashRank(CHOOSE k \in hits : \A m \in hits : k <= m)

\* C9: target_position is "#k" for the first organic result whose domain
\* contains the target domain, letter case ignored on both sides, and
\* "Not on Page 1" when there is none.
C9_PositionIgnoringCase ==
    (pc = "processed" /\ record.tag = "dict") =>
        record.target_position = ExpectedPosition(target_url, serp_data.organic_results)

\* number of entries of the list s whose text form is x
CountOf(s, x, F(_)) == Cardinality({n \in 1..Len(s) : F(s[n]) = x})

Identity(x) == x

UnitPair(u) == <<u.keyword, u.location>>

\* C10: the built list has |K| x |L| units, and every (keyword, location)
\* pair is in it once for every way of picking the keyword from K and the
\* location from L: nothing is filtered, nothing is merged.
C10_CartesianProduct ==
    pc = "built" =>
        /\ Len(search_queries) = Len(keyword_list) * Len(valid_locations)
        /\ \A kw \in Keywords, loc \in Locations :
              CountOf(search_queries, <<kw, LocationString(loc)>>, UnitPair)
                  = CountOf(keyword_list, kw, Identity)
                    * CountOf(valid_locations, loc, Identity)

\* a built list from inputs that repeat a keyword and a location
C10_Witness ==
    /\ pc = "built"
    /\ keyword_list = <<"plumber", "plumber">>
    /\ Len(valid_locations) = 3
    /\ valid_locations[1] = valid_locations[3]
    /\ valid_locations[1] # valid_locations[2]
    /\ Len(search_queries) = 6

\* the list rs in the order p, a permutation of its indices
Permute(rs, p) == [n \in 1..Len(rs) |-> rs[p[n]]]

\* no value filed under the key ranks better than v
BestOf(v, values) ==
    \A n \in 1..Len(values) : ~KeyGreater(RankKey(v), RankKey(values[n]))

\* C11: when several result records share a (location, keyword) key, the
\* pivot view shows the best rank among them for that key: the lowest "#k",
\* with "Not on Page 1" counted as worse than every "#k".
C11_PivotBestRank ==
    pc \in {"displayed", "reported"} =>
        \A key \in Keys(results) : BestOf(pivot_data[key], GroupValues(results, key))

\* C12: the aggregation output (the counts and rates, the on-screen pivot and
\* the report's ranking_matrix) is the same for every permutation of the
\* result records, also when two records share a (location, keyword) key.
C12_OrderIndependent ==
    pc = "reported" =>
        \A p \in Permutations(1..Len(results)) :
            /\ Summary(Permute(results, p), target_url) = summary
            /\ pivot_table(Permute(results, p)) = pivot_data
            /\ generate_html_report(Permute(results, p), target_url) = report

\* C13: the aggregation never fails on a zero denominator: with no result
\* record the ranking rate is 0.0, with no local listing the local top-3
\* rate is 0.0, and neither case ends in an error.
C13_ZeroDenominatorDefined ==
    pc \in {"displayed", "crashed", "reported"} =>
        /\ error # "ZeroDivisionError"
        /\ results = <<>> => summary.ranking_rate = ZeroRate
        /\ total_local_listings(results) = 0 => summary.local_rate = ZeroRate

\* C14: if a batch run yields no successful record, the run ends in an error
\* and no report is made: neither the results display nor
\* generate_html_report is reached with an empty result collection.
C14_NoDisplayOfEmptyBatch ==
    (total > 0 /\ completed = total /\ results = <<>>) =>
        summary = Unset /\ report = Unset

\* a stripped line is a 5-digit numeric ZIP
IsZipLine(loc) == IsDigit(loc) /\ Len(loc) = 5

\* a stripped line has the form 'City, State': a city and a state, one comma
IsCityStateLine(loc) ==
    /\ ~IsDigit(loc)
    /\ Len(Split(loc)) = 2
    /\ Strip(Split(loc)[1]) # <<>>
    /\ Strip(Split(loc)[2]) # <<>>

\* some non-empty location line is neither
MalformedLine ==
    \E n \in 1..Len(StrippedLines(locations_text)) :
        /\ ~IsZipLine(StrippedLines(locations_text)[n])
        /\ ~IsCityStateLine(StrippedLines(locations_text)[n])

\* C15: input validation is all-or-nothing and comes before all network
\* activity: if a non-empty location line is neither a 5-digit ZIP nor of
\* the form 'City, State', the run ends with a validation error, and no
\* geocoding call and no provider call is ever issued.
C15_AllOrNothing ==
    MalformedLine =>
        /\ geocoded = <<>>
        /\ requests = 0
        /\ pc \in {"input", "normalized", "rejected"}

\* the address-validation oracle accepts the location
Accepted(location) == SearchTerm(location) \in geocodable

\* the geocoding check is over
ValidationOver ==
    \/ error = "no_valid_locations"
    \/ pc \in {"build", "built", "submit", "collect", "returned",
               "displayed", "crashed", "reported"}

\* a provider call has been issued for unit i
Called(i) == st[i] \in {"net", "FINISHED", "COLLECTED"}

\* C16: a provider call is issued only for locations the address-validation
\* oracle accepted: a rejected location is dropped, named in the warning and
\* in no query unit; if the oracle rejects every location, the run ends with
\* the 'no valid locations' error and no provider call is made.
C16_OnlyAcceptedLocations ==
    /\ \A i \in 1..Len(search_queries) :
          \E n \in 1..Len(processed_locations) :
              /\ Accepted(processed_locations[n])
              /\ search_queries[i].location = LocationString(processed_locations[n])
    /\ requests = Cardinality({i \in Units : Called(i)})
    /\ Len(st) \in {0, Len(search_queries)}
    /\ ValidationOver =>
          \A n \in 1..Len(processed_locations) :
              ~Accepted(processed_locations[n]) =>
                  /\ \E k \in 1..Len(skipped_locations) :
                        skipped_locations[k] = LocationString(processed_locations[n])
                  /\ \A k \in 1..Len(valid_locations) :
                        valid_locations[k] # processed_locations[n]
    /\ (ValidationOver /\ \A n \in 1..Len(processed_locations) :
                              ~Accepted(processed_locations[n])) =>
          /\ error = "no_valid_locations"
          /\ pc = "rejected"
          /\ search_queries = <<>>
          /\ requests = 0

\* the oracle refused one location and accepted another, whose units have
\* been run
C16_Witness ==
    /\ pc = "returned"
    /\ skipped_locations # <<>>
    /\ requests > 0
    /\ requests = Len(search_queries)

\* C17: one invocation of the single-query executor makes exactly one
\* provider request and never repeats it: the requests issued are one per
\* unit whose call has started, and when the batch returns their number is
\* the number of submitted units, whether calls fail or the gate makes a
\* caller wait.
C17_OneRequestPerUnit ==
    /\ requests = Cardinality({i \in Units : Called(i)})
    /\ pc = "returned" => requests = Len(search_queries)

\* a call has failed, a worker has been sent to sleep by the gate, and the
\* five calls the window allows have been issued
C17_Witness ==
    /\ Failed # {}
    /\ \E i \in Units : st[i] = "sleep"
    /\ requests = CALLS

\* C19: the pool size bounds the concurrency of the batch: in every reachable
\* state at most 2 process_query invocations, and so at most 2 provider
\* calls, are in flight, however many units were submitted.
C19_AtMostTwoInFlight ==
    Cardinality({i \in Units : Running(i)}) <= 2

\* two provider calls are in flight while further units are queued
C19_Witness ==
    /\ Cardinality({i \in Units : st[i] = "net"}) = 2
    /\ Cardinality({i \in Units : st[i] = "PENDING"}) >= 2

\* the threads that are inside an append to `results` or inside the
\* increment of `completed`
InCritical ==
    (IF cpc \in {"append", "locked"} THEN {CallingThread} ELSE {})
    \cup {i \in Units : st[i] \in {"append", "increment"}}

\* C18: every append to the result collection and every increment of the
\* progress counter excludes every other append or increment, under any
\* interleaving of the workers and the collecting thread, and the lock that
\* protects them is not held across a network call: it is held only for the
\* increment, and never by a thread whose provider call is in flight.
C18_MutualExclusion ==
    /\ Cardinality(InCritical) <= 1
    /\ progress_lock # 0 <=> cpc = "locked"
    /\ progress_lock \in {0, CallingThread}
    /\ \A i \in Units : Running(i) => progress_lock # i

\* the collecting thread is inside update_progress while a provider call is
\* in flight and another future waits to be collected
C18_Witness ==
    /\ cpc = "locked"
    /\ progress_lock = CallingThread
    /\ \E i \in Units : st[i] = "net"
    /\ \E i \in Units : st[i] = "FINISHED"

====
